---- MODULE Spec2Model ----
(***************************************************************************)
(* Scrape orchestration engine of the RAT browser extension                *)
(* (src/background.js, second revision starting at line 964, and the       *)
(* extractor src/content.js).  One session is modelled.  Every async       *)
(* function is cut at its awaits: an action is the code that runs between  *)
(* two awaits, so the interleavings of the model are those the JavaScript  *)
(* event loop allows.                                                      *)
(***************************************************************************)
EXTENDS Naturals, Integers, Sequences, FiniteSets, TLC

\* ------------------------------------------------------------------ bounds
MaxLoops     == 2   \* processQueue invocations that may be alive at once
MaxTabs      == 2   \* tabs opened in one behaviour (tab ids are never reused)
NumUrls      == 2   \* distinct result URLs the engine may show
MaxPerPage   == 2   \* organic entries the extractor returns for one page
MaxQuota     == 2   \* largest globalCount the user enters
EnginePages  == 2   \* result pages the engine offers for a query
EnginePagesL == 16  \* the same, for a query with more pages than MAX_PAGES (SpecPages)
MaxTasks     == 2   \* task indices the user removes
MaxEvents    == 2   \* user commands, CAPTCHA pages and failed extractions in one behaviour
MaxEventsP   == 3   \* user commands in one behaviour of SpecPause
MaxEventsC   == 7   \* the same, in one behaviour of SpecCaptcha
MaxTabsC     == 5   \* tabs opened in one behaviour of SpecCaptcha
MaxCommandsC == 2   \* side panel commands in one behaviour of SpecCaptcha

\* ------------------------------------------------------- program constants
MAX_PAGES    == 15
RETRY_DELAYS == <<5, 15, 30, 60>>
MaxProxyTry  == 3
MaxTaskRetry == 3

Workers == 1..MaxLoops
Urls    == 1..NumUrls
Quotas  == 1..MaxQuota

Min(a, b) == IF a < b THEN a ELSE b
Max(a, b) == IF a > b THEN a ELSE b

RECURSIVE SumLen(_)
SumLen(ps) == IF ps = <<>> THEN 0 ELSE Len(Head(ps).organic) + SumLen(Tail(ps))

RECURSIVE Flatten(_)
Flatten(ps) == IF ps = <<>> THEN <<>> ELSE Head(ps).organic \o Flatten(Tail(ps))

\* Array.prototype.slice(0, n)
Slice(s, n) == SubSeq(s, 1, Min(Len(s), n))

\* ---------------------------------------------------------------- records
GoogleUS == [engineId |-> "google", countryCode |-> "us", langCode |-> "en", domain |-> "www.google.com"]
\* the side panel gives a Bing config the country's Google domain (sidepanel.js:95)
BingUS   == [engineId |-> "bing", countryCode |-> "us", langCode |-> "en", domain |-> "www.google.com"]
GoogleDE == [engineId |-> "google", countryCode |-> "de", langCode |-> "de", domain |-> "www.google.de"]

\* proxy list entries: a well-formed ip:port:user:pass line and two malformed
\* ones; ProxyFields is the length of line.trim().split(':') (line 1037)
GoodProxy == "1.2.3.4:80:u:p"
BadProxy  == "1.2.3.4:80"
LongProxy == "1.2.3.4:80:u:p:x"
ProxyFields(line) == IF line = GoodProxy THEN 4 ELSE IF line = LongProxy THEN 5 ELSE 2

newTask(q, conf) ==
  [term |-> q, config |-> conf, status |-> "OPEN", pages |-> <<>>, totalOrganic |-> 0, retryCount |-> 0]

NoSession ==
  [exists |-> FALSE, status |-> "NONE", globalCount |-> 0, tasks |-> <<>>, currentIndex |-> 0,
   useProxies |-> FALSE, proxyList |-> <<>>, originalQueries |-> <<>>, originalConfigs |-> <<>>]

\* the record createNewSession stores
createNewSession(queries, configs, resultsLimit, useProxies, proxyList) ==
  [exists |-> TRUE, status |-> "OPEN", globalCount |-> resultsLimit,
   tasks |-> [i \in 1..(Len(queries) * Len(configs)) |->
                newTask(queries[((i - 1) \div Len(configs)) + 1], configs[((i - 1) % Len(configs)) + 1])],
   currentIndex |-> 0, useProxies |-> useProxies,
   proxyList |-> IF useProxies THEN proxyList ELSE <<>>,
   originalQueries |-> queries, originalConfigs |-> configs]

ClosedTab == [open |-> FALSE, start |-> 0, count |-> 0]
\* exit: how the pagination loop was left ("quota": lines 1627 and 1700,
\* "ceiling": line 1627, "pause": an isPaused break, "nopage": line 1716)
IdleWorker ==
  [pc |-> "idle", session |-> NoSession, idx |-> 0, collected |-> 0, page |-> 0,
   seen |-> {}, tab |-> 0, retryRead |-> 0, proxyRead |-> 0, exit |-> ""]
NoCmd == [op |-> "none", s |-> NoSession]
IdleAlarm == [pc |-> "idle", retryRead |-> 0, tabRead |-> 0]
IdleObs == [pc |-> "idle", tab |-> 0]

\* results: the keys <<taskIdx, pageNum>> held by the object store STORE_RESULTS
\* logs: whether the object store STORE_LOGS holds an entry of the session
VARIABLES db, store, alarm, listener, proxy, tabs, nextTab, wk, alm, obs, resumes, cmd, budget,
          results, logs

vars == <<db, store, alarm, listener, proxy, tabs, nextTab, wk, alm, obs, resumes, cmd, budget,
          results, logs>>

\* ------------------------------------------------------------ small helpers
\* isPaused(sessionId): the record is gone or its status is not RUNNING
isPaused == ~db.exists \/ db.status # "RUNNING"


\* a faulty variant: the last OPEN task is selected
findIndexOpen_last(tasks) ==
  IF \E i \in 1..Len(tasks) : tasks[i].status = "OPEN"
  THEN CHOOSE i \in 1..Len(tasks) :
         /\ tasks[i].status = "OPEN"
         /\ \A j \in (i + 1)..Len(tasks) : tasks[j].status # "OPEN"
  ELSE 0

\* a faulty variant: FAILED tasks are picked up again
findIndexOpen_orFailed(tasks) ==
  IF \E i \in 1..Len(tasks) : tasks[i].status \in {"OPEN", "FAILED"}
  THEN CHOOSE i \in 1..Len(tasks) :
         /\ tasks[i].status \in {"OPEN", "FAILED"}
         /\ \A j \in 1..(i - 1) : tasks[j].status \notin {"OPEN", "FAILED"}
  ELSE 0

\* session.tasks.findIndex(t => t.status === "OPEN"); 0 stands for -1, tasks count from 1
findIndexOpen(tasks) ==
  IF \E i \in 1..Len(tasks) : tasks[i].status = "OPEN"
  THEN CHOOSE i \in 1..Len(tasks) :
         /\ tasks[i].status = "OPEN"
         /\ \A j \in 1..(i - 1) : tasks[j].status # "OPEN"
  ELSE 0

\* buildSearchUrl(term, conf): no page or offset parameter is ever added
buildSearchUrl(term, conf) ==
  [q |-> term,
   domain |-> IF conf.engineId = "bing" THEN "www.bing.com" ELSE conf.domain,
   gl |-> conf.countryCode, hl |-> conf.langCode, start |-> 0]

\* chrome.tabs.create({url}): a fresh tab, with an empty sessionStorage
createTab(url) == [open |-> TRUE, start |-> url.start, count |-> 0]

\* content.js scrapeData(): the rank offset comes from sessionStorage and is
\* reset on a first page (no start parameter); msg.payload.startRank is not read
rankOffsetOf(tab, startRank) == IF tab.start = 0 THEN 0 ELSE tab.count

scrapeData(tab, urls, startRank) ==
  [organic |-> [i \in 1..Len(urls) |-> [rank |-> rankOffsetOf(tab, startRank) + i, url |-> urls[i]]],
   count   |-> rankOffsetOf(tab, startRank) + Len(urls)]

\* what the extractor may find on one result page
Extractions(perPage) == UNION {[1..n -> Urls] : n \in 0..perPage}

\* data.organic.filter(r => !existingUrls.has(r.url))
filterNew(organic, existingUrls) == SelectSeq(organic, LAMBDA r : r.url \notin existingUrls)

\* a faulty variant: the page is stored without trimming
trimToQuota_untrimmed(newOrganic, globalCount, collectedOrganic) == newOrganic

\* newOrganic.slice(0, Math.max(0, remainingQuota))
trimToQuota(newOrganic, globalCount, collectedOrganic) ==
  Slice(newOrganic, Max(0, globalCount - collectedOrganic))

\* a faulty variant: the counter is assigned the page's length, not increased
addCollected_assign(collectedOrganic, finalOrganicForPage) == Len(finalOrganicForPage)

\* collectedOrganic += finalOrganicForPage.length
addCollected(collectedOrganic, finalOrganicForPage) == collectedOrganic + Len(finalOrganicForPage)

UrlsOf(organic) == {organic[i].url : i \in 1..Len(organic)}

\* one more event of the environment: a user command, a CAPTCHA page, a failed extraction
UseEvent(kind) ==
  /\ budget.events > 0
  /\ budget[kind] > 0
  /\ budget' = [budget EXCEPT !.events = @ - 1, ![kind] = @ - 1]

HasFree(w0) == \E w \in 1..budget.loops : w0[w].pc = "idle"
FreeSlot(w0) == CHOOSE w \in Workers : w0[w].pc = "idle" /\ \A v \in 1..(w - 1) : w0[v].pc # "idle"
\* a call processQueue(sessionId): the invocation sits before its first await
callProcessQueue(w0) == [w0 EXCEPT ![FreeSlot(w0)] = [IdleWorker EXCEPT !.pc = "begin"]]

\* cleanupCaptchaHandling: chrome.alarms.clear and removeListener are one
\* synchronous block; the two assignments are made by the callers as
\*   alarm' = 0 /\ listener' = 0

\* ------------------------------------------------------------ processQueue
\* lines 1590-1624: read the record, pick the first OPEN task, open the tab
processQueue_begin(w) ==
  /\ wk[w].pc = "begin"
  /\ IF ~db.exists \/ db.status # "RUNNING"
     THEN /\ wk' = [wk EXCEPT ![w] = IdleWorker]
          /\ UNCHANGED <<db, tabs, nextTab, logs>>
     ELSE IF findIndexOpen(db.tasks) = 0
     THEN /\ db' = [db EXCEPT !.status = "DONE"]
          /\ wk' = [wk EXCEPT ![w] = IdleWorker]
          /\ logs' = TRUE
          /\ UNCHANGED <<tabs, nextTab>>
     ELSE LET nextIdx == findIndexOpen(db.tasks)
              session == [db EXCEPT !.currentIndex = nextIdx]
              currentTask == session.tasks[nextIdx]
          IN /\ nextTab <= budget.tabs
             /\ db' = session
             /\ tabs' = [tabs EXCEPT ![nextTab] = createTab(buildSearchUrl(currentTask.term, currentTask.config))]
             /\ nextTab' = nextTab + 1
             /\ logs' = TRUE
             /\ wk' = [wk EXCEPT ![w] =
                         [IdleWorker EXCEPT !.pc = "loop", !.session = session, !.idx = nextIdx,
                                            !.collected = currentTask.totalOrganic,
                                            !.page = Len(currentTask.pages) + 1,
                                            !.seen = UrlsOf(Flatten(currentTask.pages)),
                                            !.tab = nextTab]]
  /\ UNCHANGED <<store, alarm, listener, proxy, alm, obs, resumes, cmd, budget, results>>

\* a faulty variant: the loop has no page ceiling
processQueue_loop_noCeiling(w) ==
  /\ wk[w].pc = "loop"
  /\ IF ~(wk[w].collected < wk[w].session.globalCount) \/ isPaused
     THEN /\ wk' = [wk EXCEPT ![w].pc = "final",
                              ![w].exit = IF ~(wk[w].collected < wk[w].session.globalCount) THEN "quota"
                                          ELSE "pause"]
          /\ UNCHANGED budget
     ELSE \/ /\ UseEvent("captchas")
             /\ wk' = [wk EXCEPT ![w].pc = "hc_begin"]
          \/ /\ wk' = [wk EXCEPT ![w].pc = "scrape"]
             /\ UNCHANGED budget
  /\ UNCHANGED <<db, store, alarm, listener, proxy, tabs, nextTab, alm, obs, resumes, cmd, results, logs>>

\* lines 1627-1660: loop condition, pause checks, CAPTCHA pre-check
processQueue_loop(w) ==
  /\ wk[w].pc = "loop"
  /\ IF ~(wk[w].collected < wk[w].session.globalCount /\ wk[w].page <= MAX_PAGES) \/ isPaused
     THEN /\ wk' = [wk EXCEPT ![w].pc = "final",
                              ![w].exit = IF ~(wk[w].collected < wk[w].session.globalCount) THEN "quota"
                                          ELSE IF ~(wk[w].page <= MAX_PAGES) THEN "ceiling"
                                          ELSE "pause"]
          /\ UNCHANGED budget
     ELSE \/ /\ UseEvent("captchas")
             /\ wk' = [wk EXCEPT ![w].pc = "hc_begin"]
          \/ /\ wk' = [wk EXCEPT ![w].pc = "scrape"]
             /\ UNCHANGED budget
  /\ UNCHANGED <<db, store, alarm, listener, proxy, tabs, nextTab, alm, obs, resumes, cmd, results, logs>>

\* lines 1672-1703: dedup, trim, push the page, save the local session object
persistPage(w, urls) ==
  LET me == wk[w]
      session == me.session
      data == scrapeData(tabs[me.tab], urls, me.collected)
      newOrganic == filterNew(data.organic, me.seen)
      finalOrganicForPage == trimToQuota(newOrganic, session.globalCount, me.collected)
      collectedOrganic == addCollected(me.collected, finalOrganicForPage)
      pageRec == [pageNumber |-> me.page, organic |-> finalOrganicForPage, start |-> tabs[me.tab].start]
      saved == [session EXCEPT !.tasks[me.idx].pages = Append(@, pageRec),
                               !.tasks[me.idx].totalOrganic = collectedOrganic]
  IN /\ results' = results \cup {<<me.idx, me.page>>}
     /\ db' = saved
     /\ tabs' = [tabs EXCEPT ![me.tab].count = data.count]
     /\ wk' = [wk EXCEPT ![w].session = saved,
                         ![w].collected = collectedOrganic,
                         ![w].seen = me.seen \cup UrlsOf(newOrganic),
                         ![w].pc = IF collectedOrganic >= session.globalCount THEN "final" ELSE "postsave",
                         ![w].exit = IF collectedOrganic >= session.globalCount THEN "quota" ELSE ""]

\* lines 1664-1729: the SCRAPE_SERP answer arrives
processQueue_scrape(w) ==
  /\ wk[w].pc = "scrape"
  /\ \/ /\ UseEvent("captchas")
        /\ wk' = [wk EXCEPT ![w].pc = "hc_begin"]
        /\ UNCHANGED <<db, tabs, results>>
     \/ /\ UseEvent("errors")
        /\ wk' = [wk EXCEPT ![w].pc = "retry"]
        /\ UNCHANGED <<db, tabs, results>>
     \/ /\ \E urls \in Extractions(budget.perPage) : persistPage(w, urls)
        /\ UNCHANGED budget
  /\ logs' = TRUE
  /\ UNCHANGED <<store, alarm, listener, proxy, nextTab, alm, obs, resumes, cmd>>

\* a faulty variant: the page counter is not increased after NAVIGATE_NEXT
processQueue_navigate_samePage(w) ==
  /\ wk[w].pc = "postsave"
  /\ IF isPaused
     THEN /\ wk' = [wk EXCEPT ![w].pc = "final", ![w].exit = "pause"]
          /\ UNCHANGED <<tabs, budget>>
     ELSE \/ /\ UseEvent("captchas")
             /\ wk' = [wk EXCEPT ![w].pc = "hc_begin"]
             /\ UNCHANGED tabs
          \/ /\ wk' = [wk EXCEPT ![w].pc = "final", ![w].exit = "nopage"]
             /\ UNCHANGED <<tabs, budget>>
          \/ /\ (tabs[wk[w].tab].start \div 10) + 1 < budget.pages
             /\ tabs' = [tabs EXCEPT ![wk[w].tab].start = @ + 10]
             /\ wk' = [wk EXCEPT ![w].pc = "loop"]
             /\ UNCHANGED budget
  /\ UNCHANGED <<db, store, alarm, listener, proxy, nextTab, alm, obs, resumes, cmd, results, logs>>

\* lines 1705-1728: pause check, NAVIGATE_NEXT, idle wait
processQueue_navigate(w) ==
  /\ wk[w].pc = "postsave"
  /\ IF isPaused
     THEN /\ wk' = [wk EXCEPT ![w].pc = "final", ![w].exit = "pause"]
          /\ UNCHANGED <<tabs, budget>>
     ELSE \/ /\ UseEvent("captchas")
             /\ wk' = [wk EXCEPT ![w].pc = "hc_begin"]
             /\ UNCHANGED tabs
          \/ /\ wk' = [wk EXCEPT ![w].pc = "final", ![w].exit = "nopage"]
             /\ UNCHANGED <<tabs, budget>>
          \/ /\ (tabs[wk[w].tab].start \div 10) + 1 < budget.pages
             /\ tabs' = [tabs EXCEPT ![wk[w].tab].start = @ + 10]
             /\ wk' = [wk EXCEPT ![w].page = @ + 1, ![w].pc = "loop"]
             /\ UNCHANGED budget
  /\ UNCHANGED <<db, store, alarm, listener, proxy, nextTab, alm, obs, resumes, cmd, results, logs>>

\* lines 1732-1738: mark the task DONE when the session still reads RUNNING
processQueue_final(w) ==
  /\ wk[w].pc = "final"
  /\ IF db.exists /\ db.status = "RUNNING"
     THEN LET saved == [wk[w].session EXCEPT !.tasks[wk[w].idx].status = "DONE"]
          IN /\ db' = saved
             /\ wk' = [wk EXCEPT ![w].session = saved, ![w].pc = "finally"]
     ELSE /\ wk' = [wk EXCEPT ![w].pc = "finally"]
          /\ UNCHANGED db
  /\ UNCHANGED <<store, alarm, listener, proxy, tabs, nextTab, alm, obs, resumes, cmd, budget, results, logs>>

\* a faulty variant: the retry is counted whatever the session status is
handleRetry_always(w) ==
  /\ wk[w].pc = "retry"
  /\ LET n == wk[w].session.tasks[wk[w].idx].retryCount + 1
     IN wk' = [wk EXCEPT ![w].session.tasks[wk[w].idx].retryCount = n,
                         ![w].session.tasks[wk[w].idx].status =
                            IF n > MaxTaskRetry THEN "FAILED" ELSE "OPEN",
                         ![w].pc = "finally"]
  /\ logs' = TRUE
  /\ UNCHANGED <<db, store, alarm, listener, proxy, tabs, nextTab, alm, obs, resumes, cmd, budget, results>>

\* handleRetry, lines 1963-1974: changes the local task object only
handleRetry(w) ==
  /\ wk[w].pc = "retry"
  /\ IF isPaused
     THEN wk' = [wk EXCEPT ![w].pc = "finally"] /\ UNCHANGED logs
     ELSE LET n == wk[w].session.tasks[wk[w].idx].retryCount + 1
          IN logs' = TRUE /\ wk' = [wk EXCEPT ![w].session.tasks[wk[w].idx].retryCount = n,
                              ![w].session.tasks[wk[w].idx].status =
                                 IF n > MaxTaskRetry THEN "FAILED" ELSE "OPEN",
                              ![w].pc = "finally"]
  /\ UNCHANGED <<db, store, alarm, listener, proxy, tabs, nextTab, alm, obs, resumes, cmd, budget, results>>

\* a faulty variant: the tab is closed whatever the session status is
processQueue_finally_closeAlways(w) ==
  /\ wk[w].pc \in {"finally", "finally_ret"}
  /\ tabs' = IF wk[w].tab # 0 THEN [tabs EXCEPT ![wk[w].tab] = ClosedTab] ELSE tabs
  /\ wk' = [wk EXCEPT ![w] =
              IF wk[w].pc = "finally" /\ db.exists /\ db.status = "RUNNING"
              THEN [IdleWorker EXCEPT !.pc = "cooldown"]
              ELSE IdleWorker]
  /\ UNCHANGED <<db, store, alarm, listener, proxy, nextTab, alm, obs, resumes, cmd, budget, results, logs>>

\* lines 1743-1757: close the tab unless PAUSED_CAPTCHA; after a normal exit
\* re-read the record and arm the cooldown timer
processQueue_finally(w) ==
  /\ wk[w].pc \in {"finally", "finally_ret"}
  /\ tabs' = IF wk[w].tab # 0 /\ (~db.exists \/ db.status # "PAUSED_CAPTCHA")
             THEN [tabs EXCEPT ![wk[w].tab] = ClosedTab]
             ELSE tabs
  /\ wk' = [wk EXCEPT ![w] =
              IF wk[w].pc = "finally" /\ db.exists /\ db.status = "RUNNING"
              THEN [IdleWorker EXCEPT !.pc = "cooldown"]
              ELSE IdleWorker]
  /\ UNCHANGED <<db, store, alarm, listener, proxy, nextTab, alm, obs, resumes, cmd, budget, results, logs>>

\* line 1756: setTimeout(() => processQueue(sessionId), cooldown) fires
processQueue_cooldown(w) ==
  /\ wk[w].pc = "cooldown"
  /\ wk' = [wk EXCEPT ![w].pc = "begin"]
  /\ UNCHANGED <<db, store, alarm, listener, proxy, tabs, nextTab, alm, obs, resumes, cmd, budget, results, logs>>


\* a faulty variant: the detection is counted as a retry of the task
handleCaptchaEvent_begin_counted(w) ==
  /\ wk[w].pc = "hc_begin"
  /\ IF ~db.exists \/ db.status # "RUNNING"
     THEN /\ wk' = [wk EXCEPT ![w].pc = "finally_ret"]
          /\ UNCHANGED db
     ELSE /\ db' = [db EXCEPT !.status = "PAUSED_CAPTCHA", !.tasks[wk[w].idx].retryCount = @ + 1]
          /\ wk' = [wk EXCEPT ![w].session = db', ![w].pc = "hc_read"]
  /\ UNCHANGED <<store, alarm, listener, proxy, tabs, nextTab, alm, obs, resumes, cmd, budget, results, logs>>

\* ------------------------------------------------------ handleCaptchaEvent
\* lines 1268-1273: guard, mark PAUSED_CAPTCHA
handleCaptchaEvent_begin(w) ==
  /\ wk[w].pc = "hc_begin"
  /\ IF ~db.exists \/ db.status # "RUNNING"
     THEN /\ wk' = [wk EXCEPT ![w].pc = "finally_ret"]
          /\ UNCHANGED db
     ELSE /\ db' = [db EXCEPT !.status = "PAUSED_CAPTCHA"]
          /\ wk' = [wk EXCEPT ![w].session = db', ![w].pc = "hc_read"]
  /\ UNCHANGED <<store, alarm, listener, proxy, tabs, nextTab, alm, obs, resumes, cmd, budget, results, logs>>

\* the branch handleCaptchaEvent takes, lines 1286 and 1298
captchaBranch(useProxies, proxyList, proxyTryCount) ==
  IF useProxies /\ Len(proxyList) > 0 /\ proxyTryCount < MaxProxyTry THEN "hc_proxy"
  ELSE IF proxyTryCount >= MaxProxyTry THEN "hc_fallback"
  ELSE "hc_install"

\* lines 1278-1288: read the two counters, choose the branch; the proxy branch
\* calls cleanupCaptchaHandling before its first await
handleCaptchaEvent_read(w) ==
  /\ wk[w].pc = "hc_read"
  /\ LET s == wk[w].session
         branch == captchaBranch(s.useProxies, s.proxyList, store.proxy_try)
     IN /\ wk' = [wk EXCEPT ![w].retryRead = store.retry, ![w].proxyRead = store.proxy_try,
                            ![w].pc = branch]
        /\ IF branch = "hc_proxy"
           THEN alarm' = 0 /\ listener' = 0
           ELSE UNCHANGED <<alarm, listener>>
  /\ UNCHANGED <<db, store, proxy, tabs, nextTab, alm, obs, resumes, cmd, budget, results, logs>>

\* a faulty variant: the line is applied whatever its number of fields
setRandomProxy_anyLine(randomLine, old) ==
  [rule |-> randomLine, auth |-> randomLine, log |-> "INFO"]

\* setRandomProxy, lines 1032-1067: a line that does not have four fields
\* changes neither the rule nor the credentials and logs at level WARN; log
\* is the level of the entry the last call wrote to the session log
setRandomProxy(randomLine, old) ==
  IF ProxyFields(randomLine) # 4
  THEN [old EXCEPT !.log = "WARN"]
  ELSE [rule |-> randomLine, auth |-> randomLine, log |-> "INFO"]

\* lines 1289-1294: rotate, close the tab, count the attempt, resume
handleCaptchaEvent_proxy(w) ==
  /\ wk[w].pc = "hc_proxy"
  /\ \E i \in 1..Len(wk[w].session.proxyList) :
        proxy' = setRandomProxy(wk[w].session.proxyList[i], proxy)
  /\ tabs' = [tabs EXCEPT ![wk[w].tab] = ClosedTab]
  /\ store' = [store EXCEPT !.proxy_try = wk[w].proxyRead + 1]
  /\ resumes' = resumes + 1
  /\ wk' = [wk EXCEPT ![w].pc = "finally_ret"]
  /\ logs' = TRUE
  /\ UNCHANGED <<db, alarm, listener, nextTab, alm, obs, cmd, budget, results>>

\* lines 1298-1305: direct connection, reload, reset the proxy counter
handleCaptchaEvent_fallback(w) ==
  /\ wk[w].pc = "hc_fallback"
  /\ proxy' = [proxy EXCEPT !.rule = "", !.auth = ""]
  /\ store' = [store EXCEPT !.proxy_try = 0]
  /\ wk' = [wk EXCEPT ![w].pc = "hc_install"]
  /\ logs' = TRUE
  /\ UNCHANGED <<db, alarm, listener, tabs, nextTab, alm, obs, resumes, cmd, budget, results>>

\* a faulty variant: the tiers start again after the last one
waitMinutes_wrap(retryCount) == RETRY_DELAYS[(retryCount % Len(RETRY_DELAYS)) + 1]

\* a faulty variant: every timed wait uses the first delay
waitMinutes_first(retryCount) == RETRY_DELAYS[1]

\* lines 1309-1310
waitMinutes(retryCount) == RETRY_DELAYS[Min(retryCount, Len(RETRY_DELAYS) - 1) + 1]

\* lines 1308-1351: remember the tab, install the observer, create the alarm
handleCaptchaEvent_install(w) ==
  /\ wk[w].pc = "hc_install"
  /\ store' = [store EXCEPT !.tab = wk[w].tab]
  /\ listener' = wk[w].tab
  /\ alarm' = waitMinutes(wk[w].retryRead)
  /\ wk' = [wk EXCEPT ![w].pc = "finally_ret"]
  /\ logs' = TRUE
  /\ UNCHANGED <<db, proxy, tabs, nextTab, alm, obs, resumes, cmd, budget, results>>

\* ------------------------------------------------------- retry alarm handler
\* lines 1073-1079: the alarm fires, the handler reads retry_<id> and tab_<id>
onAlarm_fire ==
  /\ alarm # 0
  /\ alm.pc = "idle"
  /\ alarm' = 0
  /\ alm' = [pc |-> "run", retryRead |-> store.retry, tabRead |-> store.tab]
  /\ logs' = TRUE
  /\ UNCHANGED <<db, store, listener, proxy, tabs, nextTab, wk, obs, resumes, cmd, budget, results>>

\* lines 1085-1093: close the old tab, count the retry, resumeSession
onAlarm_resume ==
  /\ alm.pc = "run"
  /\ tabs' = IF alm.tabRead # 0 THEN [tabs EXCEPT ![alm.tabRead] = ClosedTab] ELSE tabs
  /\ store' = [store EXCEPT !.retry = alm.retryRead + 1]
  /\ resumes' = resumes + 1
  /\ alm' = IdleAlarm
  /\ UNCHANGED <<db, alarm, listener, proxy, nextTab, wk, obs, cmd, budget, results, logs>>

\* resumeSession, lines 1364-1373
resumeSession ==
  /\ resumes > 0
  /\ resumes' = resumes - 1
  /\ IF db.exists
     THEN /\ HasFree(wk)
          /\ db' = [db EXCEPT !.status = "RUNNING"]
          /\ wk' = callProcessQueue(wk)
     ELSE UNCHANGED <<db, wk>>
  /\ UNCHANGED <<store, alarm, listener, proxy, tabs, nextTab, alm, obs, cmd, budget, results, logs>>

\* ------------------------------------------------------------ tab observer
\* lines 1319-1326: the held tab reports a URL that looks clean
onTabUpdated_start ==
  /\ listener # 0
  /\ tabs[listener].open
  /\ obs.pc = "idle"
  /\ obs' = [pc |-> "verify", tab |-> listener]
  /\ UNCHANGED <<db, store, alarm, listener, proxy, tabs, nextTab, wk, alm, resumes, cmd, budget, results, logs>>

\* lines 1327-1345: CHECK_CAPTCHA; on success cleanupCaptchaHandling
onTabUpdated_verify ==
  /\ obs.pc = "verify"
  /\ \/ /\ tabs[obs.tab].open
        /\ alarm' = 0
        /\ listener' = 0
        /\ obs' = [obs EXCEPT !.pc = "reset"]
     \/ /\ obs' = IdleObs
        /\ UNCHANGED <<alarm, listener>>
  /\ UNCHANGED <<db, store, proxy, tabs, nextTab, wk, alm, resumes, cmd, budget, results, logs>>

\* lines 1338-1339: both counters to 0, resumeSession
onTabUpdated_resume ==
  /\ obs.pc = "reset"
  /\ store' = [store EXCEPT !.retry = 0, !.proxy_try = 0]
  /\ resumes' = resumes + 1
  /\ obs' = IdleObs
  /\ UNCHANGED <<db, alarm, listener, proxy, tabs, nextTab, wk, alm, cmd, budget, results, logs>>

\* ------------------------------------------------------------ UI commands

\* startSession, lines 1554-1557: read the record, issue the counter reset
startSession_read ==
  /\ UseEvent("commands")
  /\ cmd.op = "none"
  /\ db.exists
  /\ cmd' = [NoCmd EXCEPT !.op = "start", !.s = [db EXCEPT !.status = "RUNNING"]]
  /\ store' = [store EXCEPT !.retry = 0, !.proxy_try = 0]
  /\ UNCHANGED <<db, alarm, listener, proxy, tabs, nextTab, wk, alm, obs, resumes, results, logs>>

\* startSession, lines 1558-1560: save the record read above, call processQueue
startSession_save ==
  /\ cmd.op = "start"
  /\ HasFree(wk)
  /\ db' = cmd.s
  /\ wk' = callProcessQueue(wk)
  /\ cmd' = NoCmd
  /\ UNCHANGED <<store, alarm, listener, proxy, tabs, nextTab, alm, obs, resumes, budget, results, logs>>

\* pauseSession(id, "USER"), lines 1564-1575
pauseSession ==
  /\ UseEvent("commands")
  /\ db.exists
  /\ alarm' = 0
  /\ listener' = 0
  /\ db' = [db EXCEPT !.status = "PAUSED"]
  /\ logs' = TRUE
  /\ UNCHANGED <<store, proxy, tabs, nextTab, wk, alm, obs, resumes, cmd, results>>

\* updateSessionLimit, lines 2057-2065
updateSessionLimit(limit) ==
  /\ UseEvent("commands")
  /\ db.exists
  /\ db' = [db EXCEPT !.globalCount = limit]
  /\ logs' = TRUE
  /\ UNCHANGED <<store, alarm, listener, proxy, tabs, nextTab, wk, alm, obs, resumes, cmd, results>>

\* the tasks addItemsToSession generates, lines 1425-1447
crossTasks(queries, configs) ==
  [i \in 1..(Len(queries) * Len(configs)) |->
     newTask(queries[((i - 1) \div Len(configs)) + 1], configs[((i - 1) % Len(configs)) + 1])]

addedSession(session, newQueries, newConfigs) ==
  LET t1 == crossTasks(newQueries, session.originalConfigs)
      q1 == session.originalQueries \o newQueries
      t2 == crossTasks(q1, newConfigs)
  IN [session EXCEPT !.tasks = @ \o t1 \o t2,
                     !.originalQueries = q1,
                     !.originalConfigs = @ \o newConfigs]

\* addItemsToSession, lines 1420-1452 and 1457-1460: the extended record is
\* saved; on a finished session the status is changed after that save
addItemsToSession(newQueries, newConfigs) ==
  /\ UseEvent("commands")
  /\ db.exists
  /\ Len(newQueries) + Len(newConfigs) > 0
  /\ LET session == addedSession(db, newQueries, newConfigs)
     IN IF Len(session.tasks) = Len(db.tasks)
        THEN UNCHANGED <<db, wk, cmd>>
        ELSE IF session.status = "DONE"
        THEN /\ cmd.op = "none"
             /\ db' = session
             /\ cmd' = [NoCmd EXCEPT !.op = "additems", !.s = session]
             /\ UNCHANGED wk
        ELSE IF session.status = "RUNNING"
        THEN HasFree(wk) /\ db' = session /\ wk' = callProcessQueue(wk) /\ UNCHANGED cmd
        ELSE db' = session /\ UNCHANGED <<wk, cmd>>
  /\ logs' = TRUE
  /\ UNCHANGED <<store, alarm, listener, proxy, tabs, nextTab, alm, obs, resumes, results>>

\* addItemsToSession, lines 1454-1456: the finished session becomes PAUSED
addItemsToSession_pause ==
  /\ cmd.op = "additems"
  /\ db' = [cmd.s EXCEPT !.status = "PAUSED"]
  /\ cmd' = NoCmd
  /\ logs' = TRUE
  /\ UNCHANGED <<store, alarm, listener, proxy, tabs, nextTab, wk, alm, obs, resumes, budget, results>>

\* a faulty variant: a DONE task is cancelled like any other
removeSingleTask_anyStatus(taskIndex) ==
  /\ UseEvent("commands")
  /\ db.exists
  /\ taskIndex \in 1..Len(db.tasks)
  /\ db' = [db EXCEPT !.tasks[taskIndex].status = "CANCELLED"]
  /\ UNCHANGED <<store, alarm, listener, proxy, tabs, nextTab, wk, alm, obs, resumes, cmd, results, logs>>

\* removeSingleTask, lines 1399-1417; taskIndex counts from 1 here
removeSingleTask(taskIndex) ==
  /\ UseEvent("commands")
  /\ db.exists
  /\ taskIndex \in 1..Len(db.tasks)
  /\ db' = IF db.tasks[taskIndex].status = "DONE" THEN db
           ELSE [db EXCEPT !.tasks[taskIndex].status = "CANCELLED"]
  /\ UNCHANGED <<store, alarm, listener, proxy, tabs, nextTab, wk, alm, obs, resumes, cmd, results, logs>>

\* the test of lines 1479-1481: country, language and domain only
sameConfig(a, b) ==
  a.countryCode = b.countryCode /\ a.langCode = b.langCode /\ a.domain = b.domain

\* removeConfigFromSession, lines 1466-1493; configIndex counts from 1 here
removeConfigFromSession(configIndex) ==
  /\ UseEvent("commands")
  /\ db.exists
  /\ configIndex \in 1..Len(db.originalConfigs)
  /\ LET configToRemove == db.originalConfigs[configIndex]
     IN db' = [db EXCEPT
                 !.originalConfigs = [i \in 1..(Len(@) - 1) |-> IF i < configIndex THEN @[i] ELSE @[i + 1]],
                 !.tasks = [i \in 1..Len(@) |->
                              IF sameConfig(@[i].config, configToRemove) /\ @[i].status \in {"OPEN", "FAILED"}
                              THEN [@[i] EXCEPT !.status = "CANCELLED"]
                              ELSE @[i]]]
  /\ logs' = TRUE
  /\ UNCHANGED <<store, alarm, listener, proxy, tabs, nextTab, wk, alm, obs, resumes, cmd, results>>

\* updateSessionProxies, lines 1496-1514: with proxies on, the counter reset is
\* awaited between reading the record and saving it
updateSessionProxies_read(useProxies, proxyList) ==
  /\ UseEvent("commands")
  /\ cmd.op = "none"
  /\ db.exists
  /\ LET session == [db EXCEPT !.useProxies = useProxies,
                               !.proxyList = IF useProxies THEN proxyList ELSE <<>>]
     IN IF useProxies
        THEN /\ store' = [store EXCEPT !.proxy_try = 0]
             /\ cmd' = [NoCmd EXCEPT !.op = "proxies", !.s = session]
             /\ UNCHANGED <<db, proxy>>
        ELSE /\ proxy' = [proxy EXCEPT !.rule = "", !.auth = ""]
             /\ db' = session
             /\ UNCHANGED <<store, cmd>>
  /\ UNCHANGED <<alarm, listener, tabs, nextTab, wk, alm, obs, resumes, results, logs>>

\* updateSessionProxies, line 1516: save the record read above
updateSessionProxies_save ==
  /\ cmd.op = "proxies"
  /\ db' = cmd.s
  /\ cmd' = NoCmd
  /\ logs' = TRUE
  /\ UNCHANGED <<store, alarm, listener, proxy, tabs, nextTab, wk, alm, obs, resumes, budget, results>>

\* deleteSession, lines 1578-1584
deleteSession ==
  /\ UseEvent("commands")
  /\ db.exists
  /\ alarm' = 0
  /\ listener' = 0
  /\ db' = NoSession
  /\ UNCHANGED <<store, proxy, tabs, nextTab, wk, alm, obs, resumes, cmd, results, logs>>

\* ------------------------------------------------------- service worker
\* The browser stops the idle service worker and starts it again at the next
\* event: the module-level variables are initialised anew (lines 1002-1004:
\* activeCaptchaListeners = {}, currentProxyAuth = null) and the listener the
\* old instance had registered on chrome.tabs.onUpdated is gone, while
\* chrome.proxy.settings, chrome.alarms, chrome.storage, the database and the
\* tabs are kept by the browser.  Modelled for an instance with no handler in
\* flight.
serviceWorkerRestart ==
  /\ \A w \in Workers : wk[w].pc = "idle"
  /\ alm.pc = "idle" /\ obs.pc = "idle" /\ cmd.op = "none" /\ resumes = 0
  /\ proxy' = [proxy EXCEPT !.auth = ""]
  /\ listener' = 0
  /\ UNCHANGED <<db, store, alarm, tabs, nextTab, wk, alm, obs, resumes, cmd, budget, results, logs>>

\* ------------------------------------------------------------ specification
ProxyLists == {<<GoodProxy>>, <<GoodProxy, BadProxy, LongProxy>>}

InitCommon ==
  /\ store = [retry |-> 0, proxy_try |-> 0, tab |-> 0]
  /\ alarm = 0
  /\ listener = 0
  /\ proxy = [rule |-> "", auth |-> "", log |-> ""]
  /\ nextTab = 1
  /\ wk = [w \in Workers |-> IdleWorker]
  /\ alm = IdleAlarm
  /\ obs = IdleObs
  /\ resumes = 0
  /\ cmd = NoCmd
  /\ results = {}
  /\ logs = FALSE

Init ==
  /\ InitCommon
  /\ \E q \in Quotas : db = createNewSession(<<"q1">>, <<GoogleUS>>, q, FALSE, <<>>)
  /\ tabs = [i \in 1..(MaxTabs + 1) |-> ClosedTab]
  /\ budget = [loops |-> MaxLoops, events |-> MaxEvents, commands |-> MaxEvents, captchas |-> MaxEvents, errors |-> MaxEvents,
               tabs |-> MaxTabs, perPage |-> MaxPerPage, pages |-> EnginePages]

Loop(w) ==
  \/ processQueue_begin(w)
  \/ processQueue_loop(w)
  \/ processQueue_scrape(w)
  \/ processQueue_navigate(w)
  \/ processQueue_final(w)
  \/ processQueue_finally(w)
  \/ processQueue_cooldown(w)

\* the wait path of handleCaptchaEvent
CaptchaWait(w) ==
  \/ handleCaptchaEvent_begin(w)
  \/ handleCaptchaEvent_read(w)
  \/ handleCaptchaEvent_install(w)

\* the proxy steps of handleCaptchaEvent
CaptchaProxy(w) ==
  \/ handleCaptchaEvent_proxy(w)
  \/ handleCaptchaEvent_fallback(w)

\* the retry alarm and the resume it ends in
RecoveryAlarm ==
  \/ onAlarm_fire
  \/ onAlarm_resume
  \/ resumeSession

\* the observer of the held tab
RecoveryObserver ==
  \/ onTabUpdated_start
  \/ onTabUpdated_verify
  \/ onTabUpdated_resume

\* Every command of the side panel on one session.  MaxEvents events do not
\* suffice for a proxy rotation (START, UPDATE_PROXIES and a CAPTCHA page are
\* three), so no invocation reaches the proxy steps here; SpecCaptcha runs them.
Next ==
  \/ \E w \in Workers : Loop(w)
  \/ \E w \in Workers : handleRetry(w)
  \/ \E w \in Workers : CaptchaWait(w)
  \/ RecoveryAlarm
  \/ RecoveryObserver
  \/ startSession_read
  \/ startSession_save
  \/ pauseSession
  \/ \E limit \in Quotas : updateSessionLimit(limit)
  \/ addItemsToSession(<<"q2">>, <<>>)
  \/ addItemsToSession(<<>>, <<GoogleDE>>)
  \/ addItemsToSession_pause
  \/ \E i \in 1..MaxTasks : removeSingleTask(i)
  \/ removeConfigFromSession(1)
  \/ \E pl \in ProxyLists : updateSessionProxies_read(TRUE, pl)
  \/ updateSessionProxies_read(FALSE, <<>>)
  \/ updateSessionProxies_save
  \/ deleteSession

Spec == Init /\ [][Next]_vars

\* CAPTCHA handling in depth, for unattended runs: nobody solves the CAPTCHA, so
\* the held tab never reports a clean URL and recovery is left to the alarm.
\* Pages carry no organic entries, one invocation of processQueue runs at a
\* time, the commands are START and UPDATE_PROXIES, and the budget of events
\* and tabs is larger.
InitCaptcha ==
  /\ InitCommon
  /\ db = createNewSession(<<"q1">>, <<GoogleUS>>, 1, FALSE, <<>>)
  /\ tabs = [i \in 1..(MaxTabsC + 1) |-> ClosedTab]
  /\ budget = [loops |-> 1, events |-> MaxEventsC, commands |-> MaxCommandsC, captchas |-> MaxEventsC, errors |-> 0,
               tabs |-> MaxTabsC, perPage |-> 0, pages |-> EnginePages]

NextCaptcha ==
  \/ \E w \in Workers : Loop(w)
  \/ \E w \in Workers : CaptchaWait(w)
  \/ \E w \in Workers : CaptchaProxy(w)
  \/ RecoveryAlarm
  \/ startSession_read
  \/ startSession_save
  \/ \E pl \in ProxyLists : updateSessionProxies_read(TRUE, pl)
  \/ updateSessionProxies_save

SpecCaptcha == InitCaptcha /\ [][NextCaptcha]_vars

\* Proxy rotation with service worker restarts: START, UPDATE_PROXIES and
\* CAPTCHA pages, one invocation at a time, recovery by the alarm, and the
\* service worker stopped and started again whenever no handler is in flight.
InitRestart ==
  /\ InitCommon
  /\ db = createNewSession(<<"q1">>, <<GoogleUS>>, 1, FALSE, <<>>)
  /\ tabs = [i \in 1..(MaxTabsC + 1) |-> ClosedTab]
  /\ budget = [loops |-> 1, events |-> MaxEventsP, commands |-> MaxCommandsC, captchas |-> MaxEvents, errors |-> 0,
               tabs |-> MaxTabsC, perPage |-> 0, pages |-> EnginePages]

NextRestart ==
  \/ \E w \in Workers : Loop(w)
  \/ \E w \in Workers : CaptchaWait(w)
  \/ \E w \in Workers : handleCaptchaEvent_proxy(w)
  \/ RecoveryAlarm
  \/ startSession_read
  \/ startSession_save
  \/ \E pl \in ProxyLists : updateSessionProxies_read(TRUE, pl)
  \/ updateSessionProxies_read(FALSE, <<>>)
  \/ updateSessionProxies_save
  \/ serviceWorkerRestart

SpecRestart == InitRestart /\ [][NextRestart]_vars

\* importFullBackup, lines 2029-2043: every session record of the backup file
\* is put into the store as it is.  The record of this backup holds a task that
\* gave up after its retries and a task that has not run yet.
failedTask(q, conf) ==
  [newTask(q, conf) EXCEPT !.status = "FAILED", !.retryCount = MaxTaskRetry + 1]

importFullBackup ==
  [createNewSession(<<"q1", "q2">>, <<GoogleUS>>, 1, FALSE, <<>>) EXCEPT
     !.status = "PAUSED",
     !.tasks = <<failedTask("q1", GoogleUS), newTask("q2", GoogleUS)>>]

InitImported ==
  /\ InitCommon
  /\ db = importFullBackup
  /\ tabs = [i \in 1..(MaxTabs + 1) |-> ClosedTab]
  /\ budget = [loops |-> MaxLoops, events |-> MaxEvents, commands |-> MaxEvents, captchas |-> MaxEvents, errors |-> MaxEvents,
               tabs |-> MaxTabs, perPage |-> MaxPerPage, pages |-> EnginePages]

SpecImported == InitImported /\ [][Next]_vars

\* A third specification, for the claims about PAUSE and START against the
\* pagination loop: the commands are START and PAUSE, three of them, with no
\* CAPTCHA page and no failed extraction.
InitPause ==
  /\ InitCommon
  /\ \E q \in Quotas : db = createNewSession(<<"q1">>, <<GoogleUS>>, q, FALSE, <<>>)
  /\ tabs = [i \in 1..(MaxTabs + 1) |-> ClosedTab]
  /\ budget = [loops |-> MaxLoops, events |-> MaxEventsP, commands |-> MaxEventsP, captchas |-> 0, errors |-> 0,
               tabs |-> MaxTabs, perPage |-> MaxPerPage, pages |-> EnginePages]

NextPause ==
  \/ \E w \in Workers : Loop(w)
  \/ startSession_read
  \/ startSession_save
  \/ pauseSession

SpecPause == InitPause /\ [][NextPause]_vars

\* A user PAUSE during CAPTCHA handling: START, one CAPTCHA page and PAUSE,
\* with both recovery paths (alarm and observer) and one invocation at a time.
InitCaptchaPause ==
  /\ InitCommon
  /\ db = createNewSession(<<"q1">>, <<GoogleUS>>, 1, FALSE, <<>>)
  /\ tabs = [i \in 1..(MaxTabs + 1) |-> ClosedTab]
  /\ budget = [loops |-> 1, events |-> MaxEventsP, commands |-> MaxEvents, captchas |-> 1, errors |-> 0,
               tabs |-> MaxTabs, perPage |-> MaxPerPage, pages |-> EnginePages]

NextCaptchaPause ==
  \/ \E w \in Workers : Loop(w)
  \/ \E w \in Workers : CaptchaWait(w)
  \/ RecoveryAlarm
  \/ RecoveryObserver
  \/ startSession_read
  \/ startSession_save
  \/ pauseSession

SpecCaptchaPause == InitCaptchaPause /\ [][NextCaptchaPause]_vars

\* A session created with two engine configs for the same country and
\* language, one for Google and one for Bing; the operations are those of Spec.
InitEngines ==
  /\ InitCommon
  /\ db = createNewSession(<<"q1">>, <<GoogleUS, BingUS>>, 1, FALSE, <<>>)
  /\ tabs = [i \in 1..(MaxTabs + 1) |-> ClosedTab]
  /\ budget = [loops |-> MaxLoops, events |-> MaxEvents, commands |-> MaxEvents, captchas |-> MaxEvents, errors |-> MaxEvents,
               tabs |-> MaxTabs, perPage |-> MaxPerPage, pages |-> EnginePages]

SpecEngines == InitEngines /\ [][Next]_vars

\* A specification for failed extractions against PAUSE and DELETE: three
\* events, of which at most two commands (START, PAUSE, DELETE) and two failed
\* extractions, and no CAPTCHA page.
InitRetry ==
  /\ InitCommon
  /\ \E q \in Quotas : db = createNewSession(<<"q1">>, <<GoogleUS>>, q, FALSE, <<>>)
  /\ tabs = [i \in 1..(MaxTabs + 1) |-> ClosedTab]
  /\ budget = [loops |-> MaxLoops, events |-> MaxEventsP, commands |-> MaxEvents, captchas |-> 0, errors |-> MaxEvents,
               tabs |-> MaxTabs, perPage |-> MaxPerPage, pages |-> EnginePages]

NextRetry ==
  \/ \E w \in Workers : Loop(w)
  \/ \E w \in Workers : handleRetry(w)
  \/ startSession_read
  \/ startSession_save
  \/ pauseSession
  \/ deleteSession

SpecRetry == InitRetry /\ [][NextRetry]_vars

\* A specification for the page ceiling: a query whose result pages carry no
\* organic entry and for which the engine offers more pages than MAX_PAGES;
\* one invocation at a time, the commands are START and PAUSE.
InitPages ==
  /\ InitCommon
  /\ db = createNewSession(<<"q1">>, <<GoogleUS>>, 1, FALSE, <<>>)
  /\ tabs = [i \in 1..(MaxTabs + 1) |-> ClosedTab]
  /\ budget = [loops |-> 1, events |-> MaxEventsP, commands |-> MaxEventsP, captchas |-> 0, errors |-> 0,
               tabs |-> MaxTabs, perPage |-> 0, pages |-> EnginePagesL]

SpecPages == InitPages /\ [][NextPause]_vars

\* ------------------------------------------------------------------ claims
\* the invocation w of processQueue is inside its pagination loop
InLoop(w) == wk[w].pc \in {"loop", "scrape", "postsave"}

Tasks == IF db.exists THEN {db.tasks[i] : i \in 1..Len(db.tasks)} ELSE {}

\* C1: in every persisted record each task's totalOrganic is the sum of the
\* lengths of the organic lists of its pages
C1_TotalIsSum == \A t \in Tasks : t.totalOrganic = SumLen(t.pages)

\* C1 witness: a persisted task with two pages of one entry each and
\* totalOrganic 2
C1_Witness ==
  \E t \in Tasks : /\ Len(t.pages) >= 2
                   /\ Len(t.pages[1].organic) = 1
                   /\ Len(t.pages[2].organic) = 1
                   /\ t.totalOrganic = 2

\* C2: in every persisted record each task's totalOrganic is at most the
\* record's globalCount
C2_TotalAtMostQuota == \A t \in Tasks : t.totalOrganic <= db.globalCount

\* C3: no two organic entries stored in one task have the same URL
C3_NoDuplicateUrl ==
  \A t \in Tasks :
    LET all == Flatten(t.pages)
    IN \A i, j \in 1..Len(all) : i # j => all[i].url # all[j].url

\* the invocation w of processQueue is the only one alive
Solo(w) == \A v \in Workers : v # w => wk[v].pc = "idle"

\* the ranks of a task's stored organic entries increase in stored order
RanksIncrease(t) ==
  LET all == Flatten(t.pages)
  IN \A i, j \in 1..Len(all) : i < j => all[i].rank < all[j].rank

\* C4: when processQueue, with no other invocation alive, enters a task that
\* has k pages and is still below its quota, the tab it opens shows the
\* engine's result page k + 1 (offset 10 * k), the page it is about to fetch
\* and record as pageNumber k + 1
C4_ResumesAtNextPage ==
  [][\A w \in Workers :
       (wk[w].pc = "begin" /\ wk'[w].pc = "loop" /\ Solo(w)
          /\ wk'[w].collected < db'.globalCount /\ wk'[w].page <= MAX_PAGES)
         => tabs'[wk'[w].tab].start = 10 * (wk'[w].page - 1)]_vars

\* C5: when a pagination loop, with no other invocation alive, stores a page
\* for a task whose stored ranks increase, the ranks still increase: every new
\* entry has a larger rank than every entry stored before it
C5_RanksIncrease ==
  [][\A w \in Workers :
       (wk[w].pc = "scrape" /\ Solo(w) /\ wk'[w].pc \in {"postsave", "final"}
          /\ RanksIncrease(wk[w].session.tasks[wk[w].idx]))
         => RanksIncrease(db'.tasks[wk[w].idx])]_vars

\* C6: at most one processQueue pagination loop is active for the session
C6_SingleLoop == Cardinality({w \in Workers : InLoop(w)}) <= 1

\* C7: the alarm handler and the observer's confirmed-recovery branch of one
\* CAPTCHA wait episode (the same held tab) are never both on their way to
\* resumeSession; one of them resumes, the other does nothing
C7_OneRecoveryPath ==
  ~(alm.pc = "run" /\ obs.pc = "reset" /\ alm.tabRead = obs.tab)

\* C8: once pauseSession has stored PAUSED while a pagination loop is active,
\* the record stays PAUSED and gains no page until START (no START or other
\* command is in flight in the states the formula speaks of)
RECURSIVE PageCount(_)
PageCount(tasks) == IF tasks = <<>> THEN 0 ELSE Len(Head(tasks).pages) + PageCount(Tail(tasks))

C8_PauseHolds ==
  [][(db.exists /\ db.status = "PAUSED" /\ cmd.op = "none" /\ cmd'.op = "none"
        /\ (\E w \in Workers : InLoop(w)) /\ db'.exists)
       => (db'.status = "PAUSED" /\ PageCount(db'.tasks) <= PageCount(db.tasks))]_vars

\* C9 (as the code has it): with proxies enabled and a non-empty list, a
\* detection that reads proxyAttempts < 3 takes the rotation branch, which
\* clears the retry alarm, applies setRandomProxy to a line of the list, stores
\* proxyAttempts + 1, calls resumeSession and schedules no alarm; a detection
\* that reads proxyAttempts >= 3 takes the fallback, which clears the proxy and
\* stores proxyAttempts = 0, and then schedules the retry alarm with the delay
\* RETRY_DELAYS[min(waitAttempts, 3)] for the waitAttempts it read
C9_CaptchaLadder ==
  [][\A w \in Workers :
       LET me == wk[w]
           enabled == me.session.useProxies /\ Len(me.session.proxyList) > 0
       IN /\ (me.pc = "hc_read" /\ wk'[w].pc # "hc_read" /\ enabled /\ store.proxy_try < 3)
               => (wk'[w].pc = "hc_proxy" /\ alarm' = 0)
          /\ (me.pc = "hc_proxy" /\ wk'[w].pc # "hc_proxy")
               => /\ store'.proxy_try = me.proxyRead + 1
                  /\ resumes' = resumes + 1
                  /\ alarm' = alarm
                  /\ proxy'.rule \in {proxy.rule} \cup
                        {me.session.proxyList[i] : i \in 1..Len(me.session.proxyList)}
          /\ (me.pc = "hc_read" /\ wk'[w].pc # "hc_read" /\ store.proxy_try >= 3)
               => wk'[w].pc = "hc_fallback"
          /\ (me.pc = "hc_fallback" /\ wk'[w].pc # "hc_fallback")
               => (proxy'.rule = "" /\ store'.proxy_try = 0 /\ alarm' = alarm)
          /\ (me.pc = "hc_install" /\ wk'[w].pc # "hc_install")
               => alarm' = RETRY_DELAYS[Min(me.retryRead, 3) + 1]]_vars

\* C9 witness: a fourth detection in a row has taken the fallback and
\* scheduled the alarm with the first delay, after three rotations
C9_Witness ==
  \E w \in Workers :
    /\ wk[w].pc = "finally_ret"
    /\ wk[w].proxyRead = 3
    /\ wk[w].retryRead = 0
    /\ store.proxy_try = 0
    /\ proxy.rule = ""
    /\ alarm = RETRY_DELAYS[1]

\* C9 as stated: the detection that follows three rotations always schedules
\* the retry alarm with the first delay RETRY_DELAYS[0]
C9_FourthWaitsFirstDelay ==
  [][\A w \in Workers :
       (wk[w].pc = "hc_install" /\ wk'[w].pc # "hc_install" /\ wk[w].proxyRead >= 3)
         => alarm' = RETRY_DELAYS[1]]_vars

\* C10: whenever the session rests in PAUSED_CAPTCHA with nothing in flight (no
\* invocation of processQueue or handleCaptchaEvent, no command, no alarm
\* handler, no observer callback, no resume), its retry alarm is pending
C10_AlarmPending ==
  (/\ db.exists /\ db.status = "PAUSED_CAPTCHA"
   /\ \A w \in Workers : wk[w].pc = "idle"
   /\ cmd.op = "none" /\ alm.pc = "idle" /\ obs.pc = "idle" /\ resumes = 0)
    => alarm # 0

\* C11: when an invocation of processQueue ends after a failed extraction that
\* handleRetry counted, the persisted record carries the count: the stored
\* retryCount of the task is not behind the one the invocation reached, so the
\* next run sees it and the fourth failure in a row marks the task FAILED
C11_RetryCounted ==
  [][\A w \in Workers :
       (wk[w].pc = "finally" /\ wk'[w].pc \in {"cooldown", "idle"} /\ db.exists)
         => db.tasks[wk[w].idx].retryCount >= wk[w].session.tasks[wk[w].idx].retryCount]_vars

\* an invocation of processQueue that has selected a task and not yet ended
Working(w) == wk[w].pc \notin {"idle", "begin", "cooldown"}

\* C12: a task that is FAILED in the persisted record is not the task of any
\* running invocation of processQueue, and every step leaves it FAILED or
\* turns it CANCELLED, with the pages it had
C12_FailedStays ==
  /\ [](db.exists => \A w \in Workers :
            Working(w) => db.tasks[wk[w].idx].status # "FAILED")
  /\ [][(db.exists /\ db'.exists)
          => \A i \in 1..Min(Len(db.tasks), Len(db'.tasks)) :
               db.tasks[i].status = "FAILED"
                 => /\ db'.tasks[i].status \in {"FAILED", "CANCELLED"}
                    /\ db'.tasks[i].pages = db.tasks[i].pages]_vars

\* C12 witness: the queue has been worked off around the FAILED task: the later
\* task is DONE, the session is DONE, the first task is still FAILED
C12_Witness ==
  /\ db.exists /\ db.status = "DONE" /\ Len(db.tasks) >= 2
  /\ db.tasks[1].status = "FAILED" /\ db.tasks[1].pages = <<>>
  /\ db.tasks[2].status = "DONE" /\ Len(db.tasks[2].pages) >= 1

\* C13: when the extracted page holds at least quota - collected entries whose
\* URLs are new for the task, the stored page is the first quota - collected of
\* them in page order, the task's totalOrganic becomes the quota, and the loop
\* leaves for the final check without asking for the next page
C13_TrimToQuota ==
  [][\A w \in Workers : \A urls \in Extractions(budget.perPage) :
       LET me == wk[w]
           quota == me.session.globalCount
           fresh == SelectSeq(scrapeData(tabs[me.tab], urls, me.collected).organic,
                              LAMBDA r : r.url \notin me.seen)
           task == db'.tasks[me.idx]
       IN (me.pc = "scrape" /\ persistPage(w, urls) /\ Len(fresh) >= quota - me.collected)
            => /\ task.pages[Len(task.pages)].organic = SubSeq(fresh, 1, quota - me.collected)
               /\ task.totalOrganic = db'.globalCount
               /\ db'.globalCount = quota
               /\ wk'[w].pc = "final"]_vars

\* a page with more new entries than the quota left has been stored trimmed
C13_Witness ==
  \E w \in Workers :
    /\ wk[w].pc = "final" /\ db.exists /\ wk[w].session = db
    /\ Len(db.tasks[wk[w].idx].pages) = 1
    /\ db.tasks[wk[w].idx].totalOrganic = db.globalCount
    /\ Cardinality(wk[w].seen) > Len(db.tasks[wk[w].idx].pages[1].organic)

\* the invocation w sits in the idle wait of lines 1722-1727: it has asked for
\* the next page and polls the pause flag before the next loop pass
IdleWait(w) == wk[w].pc = "loop" /\ wk[w].tab # 0 /\ tabs[wk[w].tab].start > 0

\* C14: while the session is PAUSED and a pagination loop is in its idle wait
\* (no command is in flight), the loop's next step leaves the loop, and no
\* step persists a further page or moves a tab to another result page
C14_PauseInIdleWait ==
  [][\A w \in Workers :
       (IdleWait(w) /\ db.exists /\ db.status = "PAUSED" /\ db'.exists
          /\ cmd.op = "none" /\ cmd'.op = "none")
         => /\ PageCount(db'.tasks) <= PageCount(db.tasks)
            /\ \A i \in 1..Len(tabs) : tabs'[i].open => tabs'[i].start = tabs[i].start
            /\ (wk'[w].pc # wk[w].pc => wk'[w].pc = "final")]_vars

\* the list cs without its i-th element
RemoveAt(cs, i) == [j \in 1..(Len(cs) - 1) |-> IF j < i THEN cs[j] ELSE cs[j + 1]]

\* C15: a step that removes the engine config c from originalConfigs sets to
\* CANCELLED exactly the tasks of config c whose status is OPEN or FAILED;
\* every other task keeps its status, and no task's pages or totalOrganic change
C15_RemoveConfigExact ==
  [][\A i \in 1..Len(db.originalConfigs) :
       (db.exists /\ db'.exists /\ db'.originalConfigs = RemoveAt(db.originalConfigs, i)
          /\ Len(db'.tasks) = Len(db.tasks))
         => \A k \in 1..Len(db.tasks) :
              /\ db'.tasks[k].status =
                   IF db.tasks[k].config = db.originalConfigs[i] /\ db.tasks[k].status \in {"OPEN", "FAILED"}
                   THEN "CANCELLED" ELSE db.tasks[k].status
              /\ db'.tasks[k].pages = db.tasks[k].pages
              /\ db'.tasks[k].totalOrganic = db.tasks[k].totalOrganic]_vars

\* C16: a persisted session record with status DONE has no OPEN task
C16_DoneHasNoOpenTask ==
  (db.exists /\ db.status = "DONE") => \A t \in Tasks : t.status # "OPEN"

\* C17: a task persisted with status DONE keeps its status, its pages and its
\* totalOrganic in every later persisted record of the session (the steps
\* looked at are those with no side panel command in flight)
C17_DoneTaskFrozen ==
  [][(db.exists /\ db'.exists /\ cmd.op = "none" /\ cmd'.op = "none")
       => \A i \in 1..Min(Len(db.tasks), Len(db'.tasks)) :
            db.tasks[i].status = "DONE"
              => /\ db'.tasks[i].status = "DONE"
                 /\ db'.tasks[i].pages = db.tasks[i].pages
                 /\ db'.tasks[i].totalOrganic = db.tasks[i].totalOrganic]_vars

\* C18: a processQueue run that reads the session RUNNING takes the OPEN task
\* with the smallest index, opens a tab for it and works on it to its end; when
\* no task is OPEN it stores the session as DONE and opens no tab
C18_FirstOpenTask ==
  [][\A w \in Workers :
       /\ (wk[w].pc = "begin" /\ wk'[w].pc # "begin" /\ db.exists /\ db.status = "RUNNING")
            => IF \E i \in 1..Len(db.tasks) : db.tasks[i].status = "OPEN"
               THEN /\ wk'[w].pc = "loop"
                    /\ db.tasks[wk'[w].idx].status = "OPEN"
                    /\ \A j \in 1..(wk'[w].idx - 1) : db.tasks[j].status # "OPEN"
                    /\ tabs'[wk'[w].tab].open /\ ~tabs[wk'[w].tab].open
               ELSE /\ db'.status = "DONE"
                    /\ wk'[w].pc = "idle"
                    /\ tabs' = tabs /\ nextTab' = nextTab
       /\ (Working(w) /\ wk'[w].pc \notin {"idle", "begin", "cooldown"})
            => wk'[w].idx = wk[w].idx]_vars

\* a run works on the second task after the first one was finished
C18_Witness ==
  \E w \in Workers :
    /\ wk[w].pc = "loop" /\ wk[w].idx = 2 /\ db.exists
    /\ db.tasks[1].status = "DONE" /\ db.tasks[2].status = "OPEN"

Range(s) == {s[i] : i \in 1..Len(s)}

\* C19: a side panel command that makes the task list longer (addItems)
\* leaves the existing tasks as they are and appends, for each (new query,
\* existing config) pair and each (query, new config) pair, one OPEN task
\* without pages; no appended task has the query and config of an existing
\* task or of another appended task
C19_AddItemsNoDuplicate ==
  [][(db.exists /\ db'.exists /\ budget'.commands < budget.commands
        /\ Len(db'.tasks) > Len(db.tasks))
       => LET old == 1..Len(db.tasks)
              new == (Len(db.tasks) + 1)..Len(db'.tasks)
              nq == SubSeq(db'.originalQueries, Len(db.originalQueries) + 1, Len(db'.originalQueries))
              nc == SubSeq(db'.originalConfigs, Len(db.originalConfigs) + 1, Len(db'.originalConfigs))
              pair(k) == <<db'.tasks[k].term, db'.tasks[k].config>>
          IN /\ \A k \in old : db'.tasks[k] = db.tasks[k]
             /\ \A k \in new : /\ db'.tasks[k].status = "OPEN"
                               /\ db'.tasks[k].pages = <<>>
                               /\ db'.tasks[k].totalOrganic = 0
             /\ {pair(k) : k \in new} =
                  (Range(nq) \X Range(db.originalConfigs)) \cup (Range(db'.originalQueries) \X Range(nc))
             /\ \A k \in new : \A j \in 1..Len(db'.tasks) : j # k => pair(j) # pair(k)]_vars

\* C20: removeTask on a DONE task leaves the persisted record as it is; on a
\* task with another status it changes that task's status to CANCELLED and
\* nothing else in the record
C20_RemoveTask ==
  [][\A i \in 1..MaxTasks :
       removeSingleTask(i)
         => IF db.tasks[i].status = "DONE"
            THEN db' = db
            ELSE /\ db'.tasks[i].status = "CANCELLED"
                 /\ [db' EXCEPT !.tasks[i].status = db.tasks[i].status] = db]_vars

\* with both configs still in the session, the first task is DONE and the
\* second has been cancelled by removeTask
C20_Witness ==
  /\ db.exists /\ Len(db.tasks) = 2 /\ Len(db.originalConfigs) = 2
  /\ db.tasks[1].status = "DONE" /\ Len(db.tasks[1].pages) >= 1
  /\ db.tasks[2].status = "CANCELLED"

TierDelay(n) == IF n = 0 THEN 5 ELSE IF n = 1 THEN 15 ELSE IF n = 2 THEN 30 ELSE 60

\* C22: handleCaptchaEvent reads waitAttempts (retry_<id>) and, when the
\* counter has not been reset since, schedules the retry alarm with the delay
\* of tier min(waitAttempts, 3) of 5, 15, 30, 60 minutes; an alarm expiry with
\* no reset since it fired adds exactly 1 to waitAttempts, and no other step
\* changes waitAttempts except to 0: from one wait to the next the delay never
\* decreases and it stays at 60 minutes from the fourth wait on
C22_BackoffLadder ==
  [][/\ \A w \in Workers :
          /\ (wk[w].pc = "hc_read" /\ wk'[w].pc # "hc_read") => wk'[w].retryRead = store.retry
          /\ (wk[w].pc = "hc_install" /\ wk'[w].pc # "hc_install" /\ wk[w].retryRead = store.retry)
               => alarm' = TierDelay(store.retry)
     /\ (alm.pc = "run" /\ alm'.pc # "run" /\ alm.retryRead = store.retry)
          => store'.retry = store.retry + 1
     /\ (store'.retry # store.retry)
          => (store'.retry = 0 \/ (alm.pc = "run" /\ alm'.pc # "run"))]_vars

\* the fifth wait in a row: four alarms have expired and the alarm is
\* scheduled with 60 minutes again
C22_Witness ==
  /\ store.retry = 4 /\ alarm = 60
  /\ db.exists /\ db.status = "PAUSED_CAPTCHA"

\* C23: the retry alarm handler adds exactly 1 to waitAttempts, closes the
\* held CAPTCHA tab (the one it read from tab_<id>), leaves proxyAttempts as it is and calls resumeSession,
\* which stores RUNNING and starts processQueue
C23_AlarmHandler ==
  [][/\ (alm.pc = "run" /\ alm'.pc # "run")
          => /\ store'.retry = store.retry + 1
             /\ store'.proxy_try = store.proxy_try
             /\ (alm.tabRead # 0 => ~tabs'[alm.tabRead].open)
             /\ resumes' = resumes + 1
     /\ (resumes' < resumes /\ db.exists)
          => /\ db'.status = "RUNNING"
             /\ \E w \in Workers : wk[w].pc = "idle" /\ wk'[w].pc = "begin"]_vars

\* C24: when startSession has finished (record saved, processQueue called)
\* and when the observer's confirmed recovery calls resumeSession,
\* proxyAttempts and waitAttempts are both 0; at the observer's call the retry
\* alarm is cleared and the observer is removed
C24_CountersReset ==
  [][/\ (cmd.op = "start" /\ cmd'.op = "none")
          => (store'.retry = 0 /\ store'.proxy_try = 0)
     /\ (obs.pc = "reset" /\ obs'.pc # "reset")
          => /\ store'.retry = 0 /\ store'.proxy_try = 0
             /\ resumes' = resumes + 1
             /\ alarm' = 0 /\ listener' # obs.tab]_vars

\* the persisted task i holds a page with page number n
HasPage(i, n) ==
  /\ i \in 1..Len(db.tasks)
  /\ \E k \in 1..Len(db.tasks[i].pages) : db.tasks[i].pages[k].pageNumber = n

\* C25: the step that persists page n writes the page record and the task's
\* new totalOrganic together, and when the loop asks for the next page the
\* persisted record (if the session still exists) holds page n of the task
C25_PersistBeforeNavigate ==
  [][\A w \in Workers :
       LET me == wk[w]
       IN /\ (me.pc = "scrape" /\ wk'[w].pc \in {"postsave", "final"})
               => LET task == db'.tasks[me.idx]
                      page == task.pages[Len(task.pages)]
                  IN /\ page.pageNumber = me.page
                     /\ task.totalOrganic = me.collected + Len(page.organic)
          /\ (me.pc = "postsave" /\ wk'[w].pc = "loop" /\ db.exists)
               => HasPage(me.idx, me.page)]_vars

\* C26: when the extraction of a page fails and the session is not RUNNING
\* any more (paused, or deleted), handleRetry leaves the task as it is, in the
\* invocation's copy and in the persisted record
C26_RetrySkippedWhenPaused ==
  [][\A w \in Workers :
       (wk[w].pc = "retry" /\ wk'[w].pc # "retry" /\ (~db.exists \/ db.status # "RUNNING"))
         => /\ wk'[w].session = wk[w].session
            /\ db' = db]_vars

\* a failed extraction has been handled after the user paused the session:
\* the only run so far is ending and its task is still OPEN with retryCount 0
C26_Witness ==
  \E w \in Workers :
    /\ wk[w].pc = "finally" /\ wk[w].tab # 0 /\ nextTab = 2
    /\ db.exists /\ db.status = "PAUSED"
    /\ budget.errors < MaxEvents
    /\ wk[w].session.tasks[wk[w].idx].retryCount = 0
    /\ wk[w].session.tasks[wk[w].idx].status = "OPEN"
    /\ \A v \in Workers : v # w => wk[v].pc = "idle"

\* the positions of an invocation inside handleCaptchaEvent and on its way out
InCaptchaHandling == {"hc_begin", "hc_read", "hc_proxy", "hc_fallback", "hc_install", "finally_ret"}

\* C27: no step of a CAPTCHA detection or of its handling (the detection
\* itself, handleCaptchaEvent, the end of the run after it) changes a task of
\* the persisted record: retryCount, status and pages stay as they were
C27_CaptchaLeavesTasks ==
  [][\A w \in Workers :
       (wk'[w].pc # wk[w].pc /\ (wk[w].pc \in InCaptchaHandling \/ wk'[w].pc = "hc_begin")
          /\ db.exists)
         => (db'.exists /\ db'.tasks = db.tasks)]_vars

\* a second CAPTCHA wait is installed: the counters have moved, the task is
\* OPEN with retryCount 0
C27_Witness ==
  /\ db.exists /\ db.status = "PAUSED_CAPTCHA" /\ alarm # 0 /\ store.retry >= 1
  /\ db.tasks[1].status = "OPEN" /\ db.tasks[1].retryCount = 0
  /\ \A w \in Workers : wk[w].pc = "idle"

\* C28: no task of a persisted record has more than MAX_PAGES pages; an
\* invocation whose page counter has passed MAX_PAGES leaves the loop although
\* the quota is not reached, and its final check, reading RUNNING, stores the
\* task as DONE
C28_PageCeiling ==
  /\ [](\A t \in Tasks : Len(t.pages) <= MAX_PAGES)
  /\ [][\A w \in Workers :
          /\ (wk[w].pc = "loop" /\ wk'[w].pc # "loop" /\ wk[w].page > MAX_PAGES)
               => wk'[w].pc = "final"
          /\ (wk[w].pc = "final" /\ wk'[w].pc # "final" /\ wk[w].page > MAX_PAGES
                /\ db.exists /\ db.status = "RUNNING")
               => db'.tasks[wk[w].idx].status = "DONE"]_vars

\* a task was stored as DONE with MAX_PAGES pages and fewer results than the quota
C28_Witness ==
  /\ db.exists /\ db.tasks[1].status = "DONE"
  /\ Len(db.tasks[1].pages) = MAX_PAGES
  /\ db.tasks[1].totalOrganic < db.globalCount

\* C29: in every persisted record the i-th page of a task has pageNumber i
C29_PageNumbers ==
  \A t \in Tasks : \A i \in 1..Len(t.pages) : t.pages[i].pageNumber = i

\* a task holds pages 1 and 2, the second one recorded by a later run (from
\* a freshly opened tab) than the first
C29_Witness ==
  \E t \in Tasks :
    /\ Len(t.pages) = 2
    /\ t.pages[1].pageNumber = 1 /\ t.pages[2].pageNumber = 2
    /\ t.pages[2].start = 0

\* C30: a line of the proxy list that does not have exactly four fields makes
\* setRandomProxy keep the routing rule and the credentials and write a WARN
\* entry; the rotation step of handleCaptchaEvent then goes on as after a
\* successful call (attempt counted, resumeSession called, handler returns)
C30_MalformedProxyNoOp ==
  /\ [](\A i \in 1..Len(db.proxyList) :
          ProxyFields(db.proxyList[i]) # 4
            => setRandomProxy(db.proxyList[i], proxy) = [proxy EXCEPT !.log = "WARN"])
  /\ [][\A w \in Workers :
          (wk[w].pc = "hc_proxy" /\ wk'[w].pc # "hc_proxy")
            => /\ proxy'.log \in {"WARN", "INFO"}
               /\ proxy'.log = "WARN" => (proxy'.rule = proxy.rule /\ proxy'.auth = proxy.auth)
               /\ proxy'.log = "INFO" => ProxyFields(proxy'.rule) = 4
               /\ wk'[w].pc = "finally_ret"
               /\ store'.proxy_try = wk[w].proxyRead + 1
               /\ resumes' = resumes + 1]_vars

\* a rotation that drew a malformed line has kept the proxy an earlier
\* rotation had set, and its handler has returned
C30_Witness ==
  \E w \in Workers :
    /\ wk[w].pc = "finally_ret"
    /\ wk[w].proxyRead = 1
    /\ store.proxy_try = 2
    /\ proxy = [rule |-> GoodProxy, auth |-> GoodProxy, log |-> "WARN"]

\* C31: when deleteSession completes, the session record, every page artifact
\* of the session and every log entry of the session are gone from the stores
C31_DeleteRemovesAll ==
  [][(db.exists /\ ~db'.exists) => (results' = {} /\ logs' = FALSE)]_vars

\* C32: the final check of processQueue marks the task DONE only when the
\* loop was left because the quota was reached, because NAVIGATE_NEXT reported
\* no further page or because the page counter passed MAX_PAGES; after a break
\* on a pause check it leaves the record as it is
C32_DoneOnlyAfterCleanExit ==
  [][\A w \in Workers :
       (wk[w].pc = "final" /\ wk'[w].pc # "final" /\ db' # db)
         => wk[w].exit \in {"quota", "nopage", "ceiling"}]_vars

\* C33: a resumeSession issued by the CAPTCHA handling (retry alarm, tab
\* observer or proxy rotation) that finds the record PAUSED by the user leaves
\* it PAUSED and starts no processQueue
C33_UserPauseOutlastsCaptcha ==
  [][(resumes' < resumes /\ db.exists /\ db.status = "PAUSED")
       => (db'.status = "PAUSED" /\ wk' = wk)]_vars

\* C34: a task whose persisted status is CANCELLED keeps that status and its
\* pages in every later persisted record (in steps with no command in flight)
C34_CancelledStays ==
  [][(db.exists /\ db'.exists /\ cmd.op = "none" /\ cmd'.op = "none")
       => \A i \in 1..Len(db.tasks) :
            (db.tasks[i].status = "CANCELLED" /\ i <= Len(db'.tasks))
              => /\ db'.tasks[i].status = "CANCELLED"
                 /\ db'.tasks[i].pages = db.tasks[i].pages]_vars

\* C35: once deleteSession has removed the session record, no later step of
\* a pagination loop or recovery callback writes it back (steps with no
\* command in flight)
C35_DeletedStaysDeleted ==
  [][(~db.exists /\ cmd.op = "none" /\ cmd'.op = "none") => ~db'.exists]_vars

\* C36: the tasks of a persisted record, those appended by addItems among
\* them, are in every later persisted record at the same place with the same
\* query and config, and originalQueries does not get shorter (steps with no
\* command in flight)
C36_AddedTasksKept ==
  [][(db.exists /\ db'.exists /\ cmd.op = "none" /\ cmd'.op = "none")
       => /\ Len(db'.tasks) >= Len(db.tasks)
          /\ \A i \in 1..Len(db.tasks) :
               i <= Len(db'.tasks) =>
                 (db'.tasks[i].term = db.tasks[i].term /\ db'.tasks[i].config = db.tasks[i].config)
          /\ Len(db'.originalQueries) >= Len(db.originalQueries)]_vars

\* C37: a tab opened by processQueue is open only while the invocation that
\* opened it is running or while the session is PAUSED_CAPTCHA
C37_NoStrayTab ==
  db.exists =>
    \A i \in DOMAIN tabs :
      tabs[i].open =>
        \/ db.status = "PAUSED_CAPTCHA"
        \/ \E w \in Workers : wk[w].pc # "idle" /\ wk[w].tab = i

\* C38: proxy credentials are stored exactly when a proxy routing rule is
\* installed
C38_AuthIffRule ==
  (proxy.auth # "") <=> (proxy.rule # "")

====
